---- MODULE Spec2Model ----
(***************************************************************************)
(* A model of src/src/NeutrinoFlux.py: the NeutrinoFlux object (its        *)
(* attributes), its methods, and the caller that assigns attributes and    *)
(* calls methods.                                                          *)
(*                                                                         *)
(* Numbers.  Python floats are modelled as decimal floating-point numbers  *)
(* with a four-digit mantissa: a value is [k |-> "ok", m |-> m, x |-> x]   *)
(* and stands for m * 10^x, with m = 0 (and x = 0) or 1000 <= |m| <= 9999. *)
(* Every arithmetic operation rounds its exact result toward zero to four  *)
(* digits, as a float operation rounds to 53 bits.  A raised exception is  *)
(* a value too, [k |-> "<exception name>", ...]; every operation returns   *)
(* the exception of its leftmost failing operand, which is the exception   *)
(* Python's left-to-right evaluation raises.                               *)
(*                                                                         *)
(* The exponents n - alpha and -alpha are integers (the attributes n and   *)
(* alpha hold integer-valued floats), and assert statements are executed   *)
(* (the interpreter runs without -O).                                      *)
(***************************************************************************)
EXTENDS Integers, Sequences, FiniteSets

(* ------------------------- decimal floats ------------------------------ *)

Val(m, x) == [k |-> "ok", m |-> m, x |-> x]

Err(kind) == [k |-> kind, m |-> 0, x |-> 0]

IsOk(a) == a.k = "ok"

\* F(a), F(a, b), F(a, b, c) with the arguments evaluated once, before F:
\* Python evaluates the operands of an operation before it operates.
Bind(F(_), a) == CHOOSE r \in {F(v) : v \in {a}} : TRUE

Bind2(F(_, _), a, b) == CHOOSE r \in {F(p[1], p[2]) : p \in {<<a, b>>}} : TRUE

Bind3(F(_, _, _), a, b, c) ==
    CHOOSE r \in {F(p[1], p[2], p[3]) : p \in {<<a, b, c>>}} : TRUE

AbsInt(a) == IF a < 0 THEN -a ELSE a

SgnInt(a) == IF a < 0 THEN -1 ELSE 1

Pow10(d) == <<1, 10, 100, 1000, 10000, 100000, 1000000, 10000000, 100000000, 1000000000>>[d + 1]

NumDigits(a) ==
    CASE a < 10 -> 1
      [] a >= 10 /\ a < 100 -> 2
      [] a >= 100 /\ a < 1000 -> 3
      [] a >= 1000 /\ a < 10000 -> 4
      [] a >= 10000 /\ a < 100000 -> 5
      [] a >= 100000 /\ a < 1000000 -> 6
      [] a >= 1000000 /\ a < 10000000 -> 7
      [] a >= 10000000 /\ a < 100000000 -> 8
      [] a >= 100000000 /\ a < 1000000000 -> 9
      [] OTHER -> 10

\* m * 10^x rounded toward zero to a four-digit mantissa.
Norm(m, x) ==
    Bind2(LAMBDA a, d :
              IF a = 0 THEN Val(0, 0)
              ELSE IF d > 4
              THEN Val(SgnInt(m) * (a \div Pow10(d - 4)), x + (d - 4))
              ELSE Val(SgnInt(m) * a * Pow10(4 - d), x - (4 - d)),
          AbsInt(m), NumDigits(AbsInt(m)))

\* An integer as a float.
I(i) == Norm(i, 0)

Zero == Val(0, 0)

One == Norm(1, 0)

FNeg(a) == Bind(LAMBDA u : IF ~IsOk(u) THEN u ELSE Val(-u.m, u.x), a)

FMul(a, b) ==
    Bind2(LAMBDA u, v :
              IF ~IsOk(u) THEN u
              ELSE IF ~IsOk(v) THEN v
              ELSE Norm(u.m * v.m, u.x + v.x),
          a, b)

\* Python raises ZeroDivisionError on a float division by zero.
FDiv(a, b) ==
    Bind2(LAMBDA u, v :
              IF ~IsOk(u) THEN u
              ELSE IF ~IsOk(v) THEN v
              ELSE IF v.m = 0 THEN Err("ZeroDivisionError")
              ELSE Norm(SgnInt(u.m) * SgnInt(v.m)
                            * ((AbsInt(u.m) * 10000) \div AbsInt(v.m)),
                        u.x - v.x - 4),
          a, b)

FAdd(a, b) ==
    Bind2(LAMBDA u, v :
              IF ~IsOk(u) THEN u
              ELSE IF ~IsOk(v) THEN v
              ELSE IF u.m = 0 THEN v
              ELSE IF v.m = 0 THEN u
              ELSE LET d == u.x - v.x
                   IN IF d > 4 THEN u
                      ELSE IF d < -4 THEN v
                      ELSE IF d >= 0 THEN Norm(u.m * Pow10(d) + v.m, v.x)
                      ELSE Norm(u.m + v.m * Pow10(-d), u.x),
          a, b)

FSub(a, b) == FAdd(a, FNeg(b))

\* a < b and a > b for two numbers (the sign of the difference is exact).
Lt(a, b) == FSub(a, b).m < 0

Gt(a, b) == Lt(b, a)

Le(a, b) == ~Lt(b, a)

RECURSIVE ISqrtIn(_, _, _)
ISqrtIn(v, lo, hi) ==
    IF lo >= hi THEN lo
    ELSE Bind3(LAMBDA l, h, mid :
                   IF mid * mid <= v THEN ISqrtIn(v, mid, h) ELSE ISqrtIn(v, l, mid - 1),
               lo, hi, (lo + hi + 1) \div 2)

\* The largest r with r * r <= v, for 0 <= v < 10^9.
ISqrt(v) == Bind(LAMBDA w : ISqrtIn(w, 0, 31622), v)

\* math.sqrt: ValueError ("math domain error") below zero.
FSqrt(a) ==
    Bind(LAMBDA u :
             IF ~IsOk(u) THEN u
             ELSE IF u.m < 0 THEN Err("ValueError")
             ELSE IF u.m = 0 THEN Zero
             ELSE IF u.x % 2 = 0
                  THEN Norm(ISqrt(u.m * 10000), (u.x - 4) \div 2)
                  ELSE Norm(ISqrt(u.m * 100000), (u.x - 5) \div 2),
         a)

\* The number of terms of the exponential series that math.exp is summed to.
ExpTerms == 10

RECURSIVE ExpSum(_, _, _, _)
ExpSum(t, i, term, acc) ==
    IF i > ExpTerms THEN acc
    ELSE Bind(LAMBDA nt : Bind(LAMBDA s : ExpSum(t, i + 1, nt, s), FAdd(acc, nt)),
              FDiv(FMul(term, t), I(i)))

\* math.exp, to the model's precision: the series for t >= 0, its
\* reciprocal for t < 0.
FExp(a) ==
    Bind(LAMBDA u :
             IF ~IsOk(u) THEN u
             ELSE IF u.m >= 0 THEN ExpSum(u, 1, One, One)
             ELSE FDiv(One, Bind(LAMBDA w : ExpSum(w, 1, One, One), FNeg(u))),
         a)

RECURSIVE PowNat(_, _)
PowNat(a, i) == IF i = 0 THEN One ELSE FMul(PowNat(a, i - 1), a)

\* a ** i for an integer-valued exponent i: 0.0 to a negative power raises
\* ZeroDivisionError, anything to the power 0 is 1.0.
FPow(a, i) ==
    Bind(LAMBDA u :
             IF ~IsOk(u) THEN u
             ELSE IF i >= 0 THEN PowNat(u, i)
             ELSE IF u.m = 0 THEN Err("ZeroDivisionError")
             ELSE FDiv(One, PowNat(u, -i)),
         a)

\* math.pi
Pi == Norm(3142, -3)


(* ---------------------- the NeutrinoFlux object ------------------------ *)

VARIABLES
    z_min, z_max, alpha, n, m_n, eta0, j, Z_decay, FluxEalpha, Emin, Emax,
    Eres,       \* the attribute E_resonance assigns
    pc,         \* "idle": the caller is between calls; "returned": a call ended
    call,       \* the method called last and its arguments
    ret,        \* what that call returned or raised
    calls,      \* the (e, absorption) evaluations of Ebe04_neutrino_flux_earth_F it made
    assigned    \* history: the caller has assigned an attribute since __init__

attrs == <<z_min, z_max, alpha, n, m_n, eta0, j, Z_decay, FluxEalpha, Emin, Emax>>

vars == <<attrs, Eres, pc, call, ret, calls, assigned>>

\* What a method that returns nothing returns, and what a function body
\* that ends without a return statement returns.
NoneVal == Err("None")

\* The value of an attribute that was never assigned.
Unset == Err("unset")

m_z == Norm(912, 8)

\* E_resonance's assignment: m_z**2 / (2. * self.m_n)
ResonanceOf(mass) == FDiv(FPow(m_z, 2), FMul(I(2), mass))

\* E_resonance: [ret |-> what the call returns or raises, Eres |-> the
\* attribute afterwards]
E_resonance ==
    IF ~Gt(m_n, Zero)
    THEN [ret |-> Err("AssertionError"), Eres |-> Eres]
    ELSE [ret |-> NoneVal, Eres |-> ResonanceOf(m_n)]

h_default == Norm(678, -3)

Om_default == Norm(308, -3)

Ol_default == Norm(692, -3)

Ok_default == Zero

Hubble(z, h, Om, Ol, Ok) ==
    Bind2(LAMBDA H0, zp :
              FSqrt(FMul(FPow(H0, 2),
                         FAdd(FAdd(FMul(Om, FPow(zp, 3)), FMul(Ok, FPow(zp, 2))), Ol))),
          FMul(I(100), h), FAdd(One, z))

\* The else branch of Ebe04_survival_probability_P (eq 15).
Suppression(e, ann_prob, Om, Ol, Ok) ==
    Bind(LAMBDA r :
             FExp(FMul(FNeg(ann_prob),
                       FDiv(FPow(r, 3),
                            FSqrt(FAdd(FAdd(FMul(Om, FPow(r, 3)), FMul(Ok, FPow(r, 2))),
                                       Ol))))),
         FDiv(Eres, e))

\* Mutant: the lower end of the window is forgotten.
OutsideWindow_NoLowerEnd(e, lower) == Gt(e, Eres)

\* Mutant: the lower end of the window is taken to be outside it.
OutsideWindow_ClosedLowerEnd(e, lower) == Le(e, lower) \/ Gt(e, Eres)

\* The test of the if statement: e < self.Eres/(1+z) or e > self.Eres
OutsideWindow(e, lower) == Lt(e, lower) \/ Gt(e, Eres)

\* Mutant: the flatness assertion is made after the window test.
Ebe04_survival_probability_P_AssertLate(e, z, h, Om, Ol, Ok) ==
    Bind2(LAMBDA ann_prob, lower :
              IF ~IsOk(ann_prob) THEN ann_prob
              ELSE IF Eres = Unset THEN Err("AttributeError")
              ELSE IF ~IsOk(lower) THEN lower
              ELSE IF OutsideWindow(e, lower) THEN One
              ELSE IF FAdd(FAdd(Om, Ol), Ok) # One THEN Err("AssertionError")
              ELSE Suppression(e, ann_prob, Om, Ol, Ok),
          FMul(FDiv(Norm(678, -3), h), Norm(3, -2)),
          FDiv(Eres, FAdd(One, z)))

Ebe04_survival_probability_P(e, z, h, Om, Ol, Ok) ==
    Bind2(LAMBDA ann_prob, lower :
              IF ~IsOk(ann_prob) THEN ann_prob
              ELSE IF FAdd(FAdd(Om, Ol), Ok) # One THEN Err("AssertionError")
              ELSE IF Eres = Unset THEN Err("AttributeError")
              ELSE IF ~IsOk(lower) THEN lower
              ELSE IF OutsideWindow(e, lower) THEN One
              ELSE Suppression(e, ann_prob, Om, Ol, Ok),
          FMul(FDiv(Norm(678, -3), h), Norm(3, -2)),
          FDiv(Eres, FAdd(One, z)))

\* Mutant: z == z_min counts as inside the redshift range.
Ebe04_source_emissivity_L_z_ClosedLowerEnd(z) ==
    LET n_min_alpha == n - alpha
    IN IF ~Lt(z, z_min)
       THEN IF Lt(z, z_max) THEN FPow(FAdd(One, z), n_min_alpha) ELSE Zero
       ELSE Zero

Ebe04_source_emissivity_L_z(z) ==
    LET n_min_alpha == n - alpha
    IN IF Gt(z, z_min)
       THEN IF Lt(z, z_max) THEN FPow(FAdd(One, z), n_min_alpha) ELSE Zero
       ELSE Zero

Ebe04_source_emissivity_L_no_z(e) == FMul(FMul(eta0, j), FPow(e, -alpha))


\* The number of points at which the quadrature evaluates its integrand.
NumNodes == 2

\* integrate.quad's evaluation points: interior points of [a, b], here the
\* midpoints of NumNodes equal parts.
quad_nodes(a, b) ==
    [i \in 1..NumNodes |->
        FAdd(a, FMul(FDiv(FSub(b, a), I(NumNodes)), Norm((2 * i - 1) * 5, -1)))]

RECURSIVE SumTo(_, _)
SumTo(vals, i) == IF i = 0 THEN Zero ELSE FAdd(SumTo(vals, i - 1), vals[i])

\* integrate.quad(f, a, b)[0]: f is evaluated at quad_nodes(a, b) in order,
\* and the first exception of f ends the call.
quad(f(_), a, b) ==
    Bind(LAMBDA nodes :
             FMul(SumTo([i \in 1..NumNodes |-> f(nodes[i])], NumNodes),
                  FDiv(FSub(b, a), I(NumNodes))),
         quad_nodes(a, b))

\* The lambda Ebe04_neutrino_flux_earth_F integrates; neither branch binds
\* it when absorption is neither True nor False.
f1_to_integrate(e, absorption, z) ==
    LET H == Hubble(z, h_default, Om_default, Ol_default, Ok_default)
    IN IF absorption = TRUE
       THEN FMul(FMul(FDiv(One, H),
                      Ebe04_survival_probability_P(e, z, h_default, Om_default,
                                                   Ol_default, Ok_default)),
                 Ebe04_source_emissivity_L_z(z))
       ELSE IF absorption = FALSE
       THEN FMul(FDiv(One, H), Ebe04_source_emissivity_L_z(z))
       ELSE Err("UnboundLocalError")

\* 1/(4 * pi) * integrant1 * 1/3. * self.Ebe04_source_emissivity_L_no_z(e)
Ebe04_neutrino_flux_earth_F(e, absorption) ==
    LET integrant1 ==
            quad(LAMBDA z : f1_to_integrate(e, absorption, z), z_min, z_max)
    IN FMul(FDiv(FMul(FMul(FDiv(One, FMul(I(4), Pi)), integrant1), One), I(3)),
            Ebe04_source_emissivity_L_no_z(e))

decay_frac_to_nu == Norm(4, -1)

\* Mutant: the return for absorption == False is missing.
Ebe05_neutrino_flux_earth_F_NoEarlyReturn(e, absorption) ==
    LET e2 == FMul(I(2), e)
        first == <<e, absorption>>
    IN Bind(LAMBDA primary_flux :
                IF ~IsOk(primary_flux) THEN [ret |-> primary_flux, calls |-> <<first>>]
                ELSE IF Z_decay = FALSE
                THEN [ret |-> primary_flux, calls |-> <<first>>]
                ELSE IF Z_decay = TRUE
                THEN Bind(LAMBDA no_abs :
                              IF ~IsOk(no_abs)
                              THEN [ret |-> no_abs, calls |-> <<first, <<e2, FALSE>>>>]
                              ELSE [ret |-> FAdd(primary_flux,
                                                 FMul(FSub(no_abs,
                                                           Ebe04_neutrino_flux_earth_F(e2, TRUE)),
                                                      decay_frac_to_nu)),
                                    calls |-> <<first, <<e2, FALSE>>, <<e2, TRUE>>>>],
                          Ebe04_neutrino_flux_earth_F(e2, FALSE))
                ELSE [ret |-> NoneVal, calls |-> <<first>>],
            Ebe04_neutrino_flux_earth_F(e, absorption))

\* Mutant: the secondary flux is taken at e, not at 2*e.
Ebe05_neutrino_flux_earth_F_SecondaryAtE(e, absorption) ==
    LET first == <<e, absorption>>
    IN Bind(LAMBDA primary_flux :
                IF ~IsOk(primary_flux) THEN [ret |-> primary_flux, calls |-> <<first>>]
                ELSE IF absorption = FALSE
                THEN [ret |-> primary_flux, calls |-> <<first>>]
                ELSE IF Z_decay = FALSE
                THEN [ret |-> primary_flux, calls |-> <<first>>]
                ELSE IF Z_decay = TRUE
                THEN Bind(LAMBDA no_abs :
                              IF ~IsOk(no_abs)
                              THEN [ret |-> no_abs, calls |-> <<first, <<e, FALSE>>>>]
                              ELSE [ret |-> FAdd(primary_flux,
                                                 FMul(FSub(no_abs,
                                                           Ebe04_neutrino_flux_earth_F(e, TRUE)),
                                                      decay_frac_to_nu)),
                                    calls |-> <<first, <<e, FALSE>>, <<e, TRUE>>>>],
                          Ebe04_neutrino_flux_earth_F(e, FALSE))
                ELSE [ret |-> NoneVal, calls |-> <<first>>],
            Ebe04_neutrino_flux_earth_F(e, absorption))

\* Ebe05_neutrino_flux_earth_F: [ret |-> what the call returns or raises,
\* calls |-> the evaluations of Ebe04_neutrino_flux_earth_F it made, in order]
Ebe05_neutrino_flux_earth_F(e, absorption) ==
    LET e2 == FMul(I(2), e)
        first == <<e, absorption>>
    IN Bind(LAMBDA primary_flux :
                IF ~IsOk(primary_flux) THEN [ret |-> primary_flux, calls |-> <<first>>]
                ELSE IF absorption = FALSE
                THEN [ret |-> primary_flux, calls |-> <<first>>]
                ELSE IF Z_decay = FALSE
                THEN [ret |-> primary_flux, calls |-> <<first>>]
                ELSE IF Z_decay = TRUE
                THEN Bind(LAMBDA no_abs :
                              IF ~IsOk(no_abs)
                              THEN [ret |-> no_abs, calls |-> <<first, <<e2, FALSE>>>>]
                              ELSE [ret |-> FAdd(primary_flux,
                                                 FMul(FSub(no_abs,
                                                           Ebe04_neutrino_flux_earth_F(e2, TRUE)),
                                                      decay_frac_to_nu)),
                                    calls |-> <<first, <<e2, FALSE>>, <<e2, TRUE>>>>],
                          Ebe04_neutrino_flux_earth_F(e2, FALSE))
                ELSE [ret |-> NoneVal, calls |-> <<first>>],
            Ebe04_neutrino_flux_earth_F(e, absorption))

(* ------------------------------ the caller ----------------------------- *)

\* Arguments and attribute values the caller uses.
MassValues == {I(-1), Zero, One, I(2)}

ZMinValues == {Zero, One}

ZMaxValues == {I(2), I(20)}

AlphaValues == {0, 1}

NValues == {1, 2}

\* Energies [eV]: negative, zero, below every window, inside the window,
\* the resonance energies of m_n = 2 and m_n = 1, and above them.
EValues == {Norm(-1, 21), Zero, Norm(1, 18), Norm(1, 21), Norm(2079, 18),
            Norm(4158, 18), Norm(5, 22)}

ZValues == {I(-1), Zero, One, I(2), I(20)}

PZValues == {I(-1), Zero, One}

HValues == {Zero, h_default}

\* Om, Ol, Ok: the defaults, a flat universe with curvature, a universe
\* that is not flat.
Cosmologies == {<<Om_default, Ol_default, Ok_default>>,
                <<Norm(25, -2), Norm(5, -1), Norm(25, -2)>>,
                <<Norm(3, -1), Norm(6, -1), Zero>>}

NoCall == [op |-> "none", e |-> Zero, z |-> Zero, h |-> Zero, Om |-> Zero,
           Ol |-> Zero, Ok |-> Zero, absorption |-> FALSE]

\* NeutrinoFlux.__init__
Init ==
    /\ z_min = Zero
    /\ z_max = I(20)
    /\ alpha = 1
    /\ n = 1
    /\ m_n = One
    /\ eta0 = Norm(1, -5)
    /\ j = Norm(3, 6)
    /\ Z_decay = TRUE
    /\ FluxEalpha = TRUE
    /\ Eres = IF Gt(One, Zero) THEN ResonanceOf(One) ELSE Unset
    /\ Emin = Zero
    /\ Emax = Norm(5, 22)
    /\ pc = "idle"
    /\ call = NoCall
    /\ ret = NoneVal
    /\ calls = <<>>
    /\ assigned = FALSE

\* The caller assigns an attribute of the object (obj.m_n = v, ...).
Assign_m_n(v) ==
    /\ pc = "idle"
    /\ m_n' = v
    /\ assigned' = TRUE
    /\ UNCHANGED <<z_min, z_max, alpha, n, eta0, j, Z_decay, FluxEalpha, Emin, Emax,
                   Eres, pc, call, ret, calls>>

Assign_z_min(v) ==
    /\ pc = "idle"
    /\ z_min' = v
    /\ assigned' = TRUE
    /\ UNCHANGED <<z_max, alpha, n, m_n, eta0, j, Z_decay, FluxEalpha, Emin, Emax,
                   Eres, pc, call, ret, calls>>

Assign_z_max(v) ==
    /\ pc = "idle"
    /\ z_max' = v
    /\ assigned' = TRUE
    /\ UNCHANGED <<z_min, alpha, n, m_n, eta0, j, Z_decay, FluxEalpha, Emin, Emax,
                   Eres, pc, call, ret, calls>>

Assign_alpha(v) ==
    /\ pc = "idle"
    /\ alpha' = v
    /\ assigned' = TRUE
    /\ UNCHANGED <<z_min, z_max, n, m_n, eta0, j, Z_decay, FluxEalpha, Emin, Emax,
                   Eres, pc, call, ret, calls>>

Assign_n(v) ==
    /\ pc = "idle"
    /\ n' = v
    /\ assigned' = TRUE
    /\ UNCHANGED <<z_min, z_max, alpha, m_n, eta0, j, Z_decay, FluxEalpha, Emin, Emax,
                   Eres, pc, call, ret, calls>>

Assign_Z_decay(v) ==
    /\ pc = "idle"
    /\ Z_decay' = v
    /\ assigned' = TRUE
    /\ UNCHANGED <<z_min, z_max, alpha, n, m_n, eta0, j, FluxEalpha, Emin, Emax,
                   Eres, pc, call, ret, calls>>

\* The caller calls a method; the call runs to its return or its exception.
Call_E_resonance ==
    /\ pc = "idle"
    /\ pc' = "returned"
    /\ call' = [NoCall EXCEPT !.op = "E_resonance"]
    /\ \E r \in {E_resonance} : ret' = r.ret /\ Eres' = r.Eres
    /\ calls' = <<>>
    /\ UNCHANGED <<attrs, assigned>>

Call_Ebe04_survival_probability_P(e, z, h, c) ==
    /\ pc = "idle"
    /\ pc' = "returned"
    /\ call' = [NoCall EXCEPT !.op = "Ebe04_survival_probability_P", !.e = e,
                              !.z = z, !.h = h, !.Om = c[1], !.Ol = c[2], !.Ok = c[3]]
    /\ ret' = Ebe04_survival_probability_P(e, z, h, c[1], c[2], c[3])
    /\ calls' = <<>>
    /\ UNCHANGED <<attrs, Eres, assigned>>

Call_Ebe04_source_emissivity_L_z(z) ==
    /\ pc = "idle"
    /\ pc' = "returned"
    /\ call' = [NoCall EXCEPT !.op = "Ebe04_source_emissivity_L_z", !.z = z]
    /\ ret' = Ebe04_source_emissivity_L_z(z)
    /\ calls' = <<>>
    /\ UNCHANGED <<attrs, Eres, assigned>>

Call_Ebe04_source_emissivity_L_no_z(e) ==
    /\ pc = "idle"
    /\ pc' = "returned"
    /\ call' = [NoCall EXCEPT !.op = "Ebe04_source_emissivity_L_no_z", !.e = e]
    /\ ret' = Ebe04_source_emissivity_L_no_z(e)
    /\ calls' = <<>>
    /\ UNCHANGED <<attrs, Eres, assigned>>

Call_Ebe04_neutrino_flux_earth_F(e, absorption) ==
    /\ pc = "idle"
    /\ pc' = "returned"
    /\ call' = [NoCall EXCEPT !.op = "Ebe04_neutrino_flux_earth_F", !.e = e,
                              !.absorption = absorption]
    /\ ret' = Ebe04_neutrino_flux_earth_F(e, absorption)
    /\ calls' = <<<<e, absorption>>>>
    /\ UNCHANGED <<attrs, Eres, assigned>>

Call_Ebe05_neutrino_flux_earth_F(e, absorption) ==
    /\ pc = "idle"
    /\ pc' = "returned"
    /\ call' = [NoCall EXCEPT !.op = "Ebe05_neutrino_flux_earth_F", !.e = e,
                              !.absorption = absorption]
    /\ \E r \in {Ebe05_neutrino_flux_earth_F(e, absorption)} :
           ret' = r.ret /\ calls' = r.calls
    /\ UNCHANGED <<attrs, Eres, assigned>>

\* The caller takes the result and goes on.
Return ==
    /\ pc = "returned"
    /\ pc' = "idle"
    /\ call' = NoCall
    /\ ret' = NoneVal
    /\ calls' = <<>>
    /\ UNCHANGED <<attrs, Eres, assigned>>

Next ==
    \/ Call_E_resonance
    \/ \E e \in EValues, z \in PZValues, h \in HValues, c \in Cosmologies :
           Call_Ebe04_survival_probability_P(e, z, h, c)
    \/ \E z \in ZValues : Call_Ebe04_source_emissivity_L_z(z)
    \/ \E e \in EValues : Call_Ebe04_source_emissivity_L_no_z(e)
    \/ \E e \in EValues, absorption \in BOOLEAN :
           Call_Ebe04_neutrino_flux_earth_F(e, absorption)
    \/ \E e \in EValues, absorption \in BOOLEAN :
           Call_Ebe05_neutrino_flux_earth_F(e, absorption)
    \/ Return
    \/ \E v \in MassValues : Assign_m_n(v)
    \/ \E v \in ZMinValues : Assign_z_min(v)
    \/ \E v \in ZMaxValues : Assign_z_max(v)
    \/ \E v \in AlphaValues : Assign_alpha(v)
    \/ \E v \in NValues : Assign_n(v)
    \/ \E v \in BOOLEAN : Assign_Z_decay(v)

Spec == Init /\ [][Next]_vars

(* ------------------------------ the claims ----------------------------- *)

\* The call that just ended was a call of the method op.
Returned(op) == pc = "returned" /\ call.op = op

\* The call that just ended raised an exception.
Raised == pc = "returned" /\ ~IsOk(ret) /\ ret # NoneVal

\* Om + Ol + Ok == 1 for the arguments of the call that just ended.
FlatCall == FAdd(FAdd(call.Om, call.Ol), call.Ok) = One

\* C1: in every reachable state the stored resonance energy is the one of
\* the current mass, Eres == m_z^2 / (2 * m_n) with m_z = 91.2e9 (stated
\* here for every state with m_n > 0, where the quotient is defined).
C1_EresOfCurrentMass ==
    Gt(m_n, Zero) => Eres = FDiv(FMul(m_z, m_z), FMul(I(2), m_n))

\* C2: with m_n <= 0, a call of E_resonance, of
\* Ebe04_survival_probability_P, or of a flux method with absorption=True
\* raises; none of them returns a number.
C2_MasslessRaises ==
    (/\ pc = "returned"
     /\ ~Gt(m_n, Zero)
     /\ \/ call.op = "E_resonance"
        \/ call.op = "Ebe04_survival_probability_P"
        \/ /\ call.op \in {"Ebe04_neutrino_flux_earth_F", "Ebe05_neutrino_flux_earth_F"}
           /\ call.absorption)
    => Raised

\* C3: Ebe04_survival_probability_P called with Om + Ol + Ok # 1 raises for
\* every e and z, also for an e outside the resonance window, where a flat
\* universe gets 1.0: the flatness assertion comes before the window test.
\* Whenever ann_prob = 0.678/h * 0.03 can be computed (h # 0) the exception
\* is the AssertionError of the flatness assertion; with h = 0 the call has
\* failed already, with the ZeroDivisionError of that quotient.
C3_NotFlatRaises ==
    (Returned("Ebe04_survival_probability_P") /\ ~FlatCall)
    => /\ ret.k \in {"AssertionError", "ZeroDivisionError"}
       /\ call.h # Zero => ret = Err("AssertionError")

\* Witness of C3: a universe that is not flat and an energy above the
\* window, rejected by the flatness assertion.
C3_Witness ==
    /\ Returned("Ebe04_survival_probability_P")
    /\ ~FlatCall
    /\ Gt(call.e, Eres)
    /\ call.z = One
    /\ ret = Err("AssertionError")

\* C4: Ebe04_source_emissivity_L_no_z raises for every e <= 0, and so do
\* the two flux methods.
C4_NonPositiveEnergyRaises ==
    (/\ pc = "returned"
     /\ call.op \in {"Ebe04_source_emissivity_L_no_z", "Ebe04_neutrino_flux_earth_F",
                     "Ebe05_neutrino_flux_earth_F"}
     /\ ~Gt(call.e, Zero))
    => Raised

\* C5: without absorption the total flux is the primary flux without
\* absorption, for every e and both values of Z_decay, and the primary flux
\* is evaluated once, at e (never at 2e).
C5_NoAbsorptionIsPrimary ==
    (Returned("Ebe05_neutrino_flux_earth_F") /\ ~call.absorption)
    => /\ ret = Ebe04_neutrino_flux_earth_F(call.e, FALSE)
       /\ calls = <<<<call.e, FALSE>>>>

\* Witness of C5: a total flux without absorption, with Z_decay set, at an
\* energy where absorption would change the flux at 2e.
C5_Witness ==
    /\ Returned("Ebe05_neutrino_flux_earth_F")
    /\ ~call.absorption
    /\ Z_decay
    /\ IsOk(ret)
    /\ Ebe04_neutrino_flux_earth_F(FMul(I(2), call.e), TRUE)
           # Ebe04_neutrino_flux_earth_F(FMul(I(2), call.e), FALSE)

\* C6: with absorption the total flux is the primary flux with absorption
\* when Z_decay is false, and primary + 0.4 * (primary(2e, no absorption) -
\* primary(2e, absorption)) when Z_decay is true; no value of the flag
\* leaves the method without a result (None).  An exception of a primary
\* flux is the exception of the total flux.
C6_AbsorptionAddsSecondary ==
    (Returned("Ebe05_neutrino_flux_earth_F") /\ call.absorption)
    => /\ ret # NoneVal
       /\ ret = IF Z_decay
                THEN FAdd(Ebe04_neutrino_flux_earth_F(call.e, TRUE),
                          FMul(Norm(4, -1),
                               FSub(Ebe04_neutrino_flux_earth_F(FMul(I(2), call.e), FALSE),
                                    Ebe04_neutrino_flux_earth_F(FMul(I(2), call.e), TRUE))))
                ELSE Ebe04_neutrino_flux_earth_F(call.e, TRUE)

\* Witness of C6: a total flux with absorption and Z_decay set that is a
\* number and differs from the primary flux.
C6_Witness ==
    /\ Returned("Ebe05_neutrino_flux_earth_F")
    /\ call.absorption
    /\ Z_decay
    /\ IsOk(ret)
    /\ ret # Ebe04_neutrino_flux_earth_F(call.e, TRUE)

\* C7: for an energy outside the resonance window at every redshift of the
\* integration range (e > Eres, or e < Eres/(1+z_max)) the primary flux with
\* absorption equals the primary flux without absorption exactly.
C7_OutsideWindowNoAbsorption ==
    (/\ Returned("Ebe04_neutrino_flux_earth_F")
     /\ call.absorption
     /\ \/ Gt(call.e, Eres)
        \/ Lt(call.e, FDiv(Eres, FAdd(One, z_max))))
    => ret = Ebe04_neutrino_flux_earth_F(call.e, FALSE)

\* Witness of C7: a primary flux with absorption at a positive energy below
\* the window of every redshift of the range.
C7_Witness ==
    /\ Returned("Ebe04_neutrino_flux_earth_F")
    /\ call.absorption
    /\ Gt(call.e, Zero)
    /\ Lt(call.e, FDiv(Eres, FAdd(One, z_max)))
    /\ IsOk(ret)
    /\ ret # Zero

C9_EmissivityZeroOutsideRange ==
    Returned("Ebe04_source_emissivity_L_z")
    => ret = IF Le(call.z, z_min) \/ Le(z_max, call.z)
             THEN Zero
             ELSE FPow(FAdd(One, call.z), n - alpha)

\* Witness of C9: a call at z == z_min, with an exponent n - alpha that is
\* not 0, that returned 0.
C9_Witness ==
    /\ Returned("Ebe04_source_emissivity_L_z")
    /\ call.z = z_min
    /\ n - alpha # 0
    /\ ret = Zero

\* C10: the object __init__ leaves has z_max > z_min, a resonance energy
\* when m_n > 0, energy bounds that are both strictly positive, and
\* Emax > Emin.
C10_ConstructedConfigValid ==
    ~assigned
    => /\ Gt(z_max, z_min)
       /\ Gt(m_n, Zero) => IsOk(Eres)
       /\ Gt(Emin, Zero)
       /\ Gt(Emax, Zero)
       /\ Gt(Emax, Emin)

====
